---- MODULE Spec2Model ----
(***************************************************************************)
(* Model of scripts/analyze.py: the log parsers (parse_time_string,        *)
(* parse_kv_file, parse_time_output, parse_system_metrics), the result     *)
(* loaders (load_kernel_results, load_sqlite_results) and the aggregation  *)
(* step (generate_summary).                                                *)
(*                                                                         *)
(* Text is a tuple of one-character strings, so that the conversions of    *)
(* the script (int(), float(), str.split(':'), the regular expressions)    *)
(* are computed and not assumed.  Floating-point values are exact          *)
(* rationals [n, d] in lowest terms.  An operation that can raise returns  *)
(* [ok |-> FALSE] when the Python code raises ValueError/IndexError.       *)
(*                                                                         *)
(* Four specifications share the variables: Spec is main, SpecSummary is   *)
(* generate_summary invoked repeatedly on the results main loaded,         *)
(* SpecMetrics is parse_system_metrics statement by statement, SpecParsers *)
(* is one call of parse_time_string, parse_kv_file or parse_time_output.   *)
(***************************************************************************)
EXTENDS Integers, Sequences, FiniteSets, TLC

VARIABLES
    m_pc,          \* parse_system_metrics: position in the function
    m_file,        \* its input: the file at the path, if any, and its lines
    m_idx,         \* index of the next line the extraction loop reads
    is_multiline,  \* line 120
    timestamps,    \* line 110
    values,        \* line 110
    mem_used,      \* line 110
    metric_type,   \* line 111
    m_ret,         \* the tuple parse_system_metrics returned
    pc,            \* main: the call it is at, "done", or "<call>_raised"
    fs,            \* the results directories on disk
    kernel_results,  \* line 851
    sqlite_results,  \* line 852
    summary,       \* the summary generate_summary built and wrote (line 734)
    report,        \* the ratios and rows generate_summary printed
    summary_json,  \* graphs/summary.json: the documents the file holds
    calls,         \* the outcome of each invocation of generate_summary
    f_pc,          \* a parser called alone: "call_<parser>", "returned_<parser>"
    f_time_str,    \* the argument of parse_time_string
    f_seconds,     \* what parse_time_string returned, or the error it raised
    f_kv_file,     \* the file at the path given to parse_kv_file
    f_kv_data,     \* the mapping parse_kv_file returned
    f_log_file,    \* the file at the path given to parse_time_output
    f_log_data     \* the mapping parse_time_output returned

mvars == <<m_pc, m_file, m_idx, is_multiline, timestamps, values, mem_used,
           metric_type, m_ret>>

pvars == <<pc, fs, kernel_results, sqlite_results, summary, report,
           summary_json, calls>>

fvars == <<f_pc, f_time_str, f_seconds, f_kv_file, f_kv_data, f_log_file,
           f_log_data>>

vars == <<m_pc, m_file, m_idx, is_multiline, timestamps, values, mem_used,
          metric_type, m_ret, pc, fs, kernel_results, sqlite_results,
          summary, report, summary_json, calls, f_pc, f_time_str, f_seconds,
          f_kv_file, f_kv_data, f_log_file, f_log_data>>

----------------------------------------------------------------------------
(* Bounds of the model *)

MaxLines == 3

MaxCC == 1

MaxUndef == 1

MaxCalls == 2

MaxKvLines == 3

MaxLogLines == 3

----------------------------------------------------------------------------
(* Rationals *)

Abs(x) == IF x < 0 THEN -x ELSE x

RECURSIVE GCD(_, _)
GCD(a, b) == IF b = 0 THEN a ELSE GCD(b, a % b)

Rat(n, d) == LET g == GCD(Abs(n), d) IN [n |-> n \div g, d |-> d \div g]

RatInt(k) == [n |-> k, d |-> 1]

RatAdd(a, b) == Rat(a.n * b.d + b.n * a.d, a.d * b.d)

RatSub(a, b) == Rat(a.n * b.d - b.n * a.d, a.d * b.d)

RatDivInt(a, k) == Rat(a.n, a.d * k)

RatDiv(a, b) == Rat(a.n * b.d, a.d * b.n)

RatLt(a, b) == a.n * b.d < b.n * a.d

\* comparisons with an integer, by the integer part (no large products)
RatLtInt(a, k) == (a.n \div a.d) < k

RatGtInt(a, k) == \/ (a.n \div a.d) > k
                  \/ (a.n \div a.d) = k /\ (a.n % a.d) # 0

----------------------------------------------------------------------------
(* int() and float() on text.  The texts of the model are unsigned decimal *)
(* literals (digits, at most one '.') and texts that int() and float()     *)
(* reject with ValueError; signs, exponents, 'nan' and 'inf' are not among *)
(* them.                                                                   *)

Digits == {"0", "1", "2", "3", "4", "5", "6", "7", "8", "9"}

DigitVal(c) ==
    CASE c = "0" -> 0 [] c = "1" -> 1 [] c = "2" -> 2 [] c = "3" -> 3
      [] c = "4" -> 4 [] c = "5" -> 5 [] c = "6" -> 6 [] c = "7" -> 7
      [] c = "8" -> 8 [] c = "9" -> 9

IsDigits(s) == \A i \in 1..Len(s) : s[i] \in Digits

\* E(x) for x the value of e: a local name whose value is computed once
Let(e, E(_)) == CHOOSE y \in {E(x) : x \in {e}} : TRUE

NatOf(s) ==
    LET upto[k \in 0..Len(s)] ==
            IF k = 0 THEN 0 ELSE 10 * upto[k - 1] + DigitVal(s[k])
    IN upto[Len(s)]

RECURSIVE Pow10(_)
Pow10(k) == IF k = 0 THEN 1 ELSE 10 * Pow10(k - 1)

Failed == [ok |-> FALSE, v |-> RatInt(0)]

Ok(v) == [ok |-> TRUE, v |-> v]

\* int(s): a non-empty run of digits
ParseInt(s) ==
    IF s # <<>> /\ IsDigits(s) THEN Ok(RatInt(NatOf(s))) ELSE Failed

\* float(s): digits, optionally one '.', with a digit on at least one side
ParseFloat(s) ==
    LET dots == {i \in 1..Len(s) : s[i] = "."} IN
    IF dots = {}
    THEN ParseInt(s)
    ELSE IF Cardinality(dots) > 1
    THEN Failed
    ELSE LET i  == CHOOSE j \in dots : TRUE
             ip == SubSeq(s, 1, i - 1)
             fp == SubSeq(s, i + 1, Len(s))
         IN IF IsDigits(ip) /\ IsDigits(fp) /\ (ip # <<>> \/ fp # <<>>)
            THEN Ok(Rat(NatOf(ip) * Pow10(Len(fp)) + NatOf(fp), Pow10(Len(fp))))
            ELSE Failed

----------------------------------------------------------------------------
(* Text *)

Positions(s, c) == {i \in 1..Len(s) : s[i] = c}

Min(S) == CHOOSE x \in S : \A y \in S : x <= y

Max(S) == CHOOSE x \in S : \A y \in S : x >= y

\* str.strip(): the text without its leading and trailing blanks
strip(s) ==
    LET inked == {i \in 1..Len(s) : s[i] # " "}
    IN IF inked = {} THEN <<>> ELSE SubSeq(s, Min(inked), Max(inked))

\* str.split(c): the pieces between the occurrences of c
split(s, c) ==
    LET at == Positions(s, c)
        \* the k-th occurrence of c; 0 and Len(s) + 1 stand for the two ends
        cut(k) == IF k = 0 THEN 0
                  ELSE IF k > Cardinality(at) THEN Len(s) + 1
                  ELSE CHOOSE i \in at : Cardinality({j \in at : j < i}) = k - 1
    IN [k \in 1..(Cardinality(at) + 1) |-> SubSeq(s, cut(k - 1) + 1, cut(k) - 1)]

\* the longest prefix of s made of characters of C
prefix_of(s, C) ==
    SubSeq(s, 1, Min({i \in 1..Len(s) : s[i] \notin C} \cup {Len(s) + 1}) - 1)

Rest(s, k) == SubSeq(s, k + 1, Len(s))

----------------------------------------------------------------------------
(* parse_time_string (lines 40-51): seconds, or the ValueError of int() or *)
(* float()                                                                 *)

SEC_PER_HOUR == 3600

SEC_PER_MIN == 60

\* parse_time_string with the hours counted as minutes
parse_time_string_hours_as_minutes(time_str) ==
    IF time_str = <<>> THEN Ok(RatInt(0))
    ELSE Let(strip(time_str), LAMBDA text :
         Let(split(text, ":"), LAMBDA parts :
         IF Len(parts) = 3
         THEN LET h == ParseInt(parts[1])
                  m == ParseInt(parts[2])
                  sec == ParseFloat(parts[3])
              IN IF h.ok /\ m.ok /\ sec.ok
                 THEN Ok(RatAdd(RatInt(h.v.n * SEC_PER_MIN + m.v.n * SEC_PER_MIN),
                                sec.v))
                 ELSE Failed
         ELSE IF Len(parts) = 2
         THEN LET m == ParseInt(parts[1])
                  sec == ParseFloat(parts[2])
              IN IF m.ok /\ sec.ok
                 THEN Ok(RatAdd(RatInt(m.v.n * SEC_PER_MIN), sec.v))
                 ELSE Failed
         ELSE ParseFloat(text)))

parse_time_string(time_str) ==
    IF time_str = <<>> THEN Ok(RatInt(0))
    ELSE Let(strip(time_str), LAMBDA text :
         Let(split(text, ":"), LAMBDA parts :
         IF Len(parts) = 3
         THEN LET h == ParseInt(parts[1])
                  m == ParseInt(parts[2])
                  sec == ParseFloat(parts[3])
              IN IF h.ok /\ m.ok /\ sec.ok
                 THEN Ok(RatAdd(RatInt(h.v.n * SEC_PER_HOUR + m.v.n * SEC_PER_MIN),
                                sec.v))
                 ELSE Failed
         ELSE IF Len(parts) = 2
         THEN LET m == ParseInt(parts[1])
                  sec == ParseFloat(parts[2])
              IN IF m.ok /\ sec.ok
                 THEN Ok(RatAdd(RatInt(m.v.n * SEC_PER_MIN), sec.v))
                 ELSE Failed
         ELSE ParseFloat(text)))

----------------------------------------------------------------------------
(* parse_kv_file (lines 54-65).  A file is [exists, lines]; a line of a    *)
(* key: value file is a text; the mapping returned is a function from the  *)
(* keys (texts) to the values (texts).                                     *)

EmptyDict == [k \in {} |-> <<>>]

\* data[key] = val
Put(data, key, val) == (key :> val) @@ data

\* dict.get(key, default)
Get(data, key, default) == IF key \in DOMAIN data THEN data[key] ELSE default

\* lines 61-64 with the line split on its last colon
kv_line_last_colon(data, raw) ==
    LET line == strip(raw) IN
    IF Positions(line, ":") # {}
    THEN LET i == Max(Positions(line, ":"))
         IN Put(data, strip(SubSeq(line, 1, i - 1)), strip(Rest(line, i)))
    ELSE data

\* lines 61-64, one line of the file
kv_line(data, raw) ==
    LET line == strip(raw) IN
    IF Positions(line, ":") # {}
    THEN LET i == Min(Positions(line, ":"))
         IN Put(data, strip(SubSeq(line, 1, i - 1)), strip(Rest(line, i)))
    ELSE data

parse_kv_file(file) ==
    IF ~file.exists THEN EmptyDict
    ELSE LET data[k \in 0..Len(file.lines)] ==
                 IF k = 0 THEN EmptyDict ELSE kv_line(data[k - 1], file.lines[k])
         IN data[Len(file.lines)]

----------------------------------------------------------------------------
(* parse_time_output (lines 68-94).  A line of a log is [label, text]: the *)
(* label names the literal text a pattern looks for ("Exit status" stands  *)
(* for 'Exit status:' and the blanks after it), text is what follows on    *)
(* the line.  A pattern matches on the first line that has its label and a *)
(* non-empty capture; the capture is computed from the text.               *)

\* ([\d:]+\.?\d*)
capture_clock(text) ==
    LET run == prefix_of(text, Digits \cup {":"})
        after == Rest(text, Len(run))
    IN IF run = <<>> THEN <<>>
       ELSE IF after # <<>> /\ after[1] = "."
       THEN run \o <<".">> \o prefix_of(Rest(after, 1), Digits)
       ELSE run

\* (\d+)
capture_digits(text) == prefix_of(text, Digits)

\* ([\d.]+)
capture_decimal(text) == prefix_of(text, Digits \cup {"."})

\* lines 76-87
patterns ==
    [wall_clock      |-> [label |-> "Elapsed (wall clock) time", group |-> "clock"],
     max_rss_kb      |-> [label |-> "Maximum resident set size", group |-> "digits"],
     user_time       |-> [label |-> "User time (seconds)", group |-> "decimal"],
     system_time     |-> [label |-> "System time (seconds)", group |-> "decimal"],
     cpu_percent     |-> [label |-> "Percent of CPU", group |-> "digits"],
     voluntary_ctx   |-> [label |-> "Voluntary context switches", group |-> "digits"],
     involuntary_ctx |-> [label |-> "Involuntary context switches", group |-> "digits"],
     minor_faults    |-> [label |-> "Minor page faults", group |-> "digits"],
     major_faults    |-> [label |-> "Major page faults", group |-> "digits"],
     exit_status     |-> [label |-> "Exit status", group |-> "digits"]]

capture(group, text) ==
    CASE group = "clock" -> capture_clock(text)
      [] group = "digits" -> capture_digits(text)
      [] group = "decimal" -> capture_decimal(text)

\* the lines of the content on which the pattern matches
matches(pattern, content) ==
    {i \in 1..Len(content) :
        /\ content[i].label = pattern.label
        /\ capture(pattern.group, content[i].text) # <<>>}

\* re.search(pattern, content): group(1) of the first match
search(pattern, content) ==
    capture(pattern.group, content[Min(matches(pattern, content))].text)

\* lines 89-94 with a default for the metrics that did not match
parse_time_output_with_defaults(file) ==
    IF ~file.exists THEN EmptyDict
    ELSE LET found == {key \in DOMAIN patterns :
                          matches(patterns[key], file.lines) # {}}
         IN [key \in DOMAIN patterns |->
                IF key \in found THEN strip(search(patterns[key], file.lines))
                ELSE <<"0">>]

\* lines 89-94
parse_time_output(file) ==
    IF ~file.exists THEN EmptyDict
    ELSE LET found == {key \in DOMAIN patterns :
                          matches(patterns[key], file.lines) # {}}
         IN [key \in found |-> strip(search(patterns[key], file.lines))]

----------------------------------------------------------------------------
(* parse_system_metrics (lines 97-175).  A file is the sequence of its     *)
(* lines, a line the sequence of its whitespace-delimited fields (the      *)
(* result of line.strip().split()), a field a text.                        *)

EPOCH == 1000000000

KB_PER_MB == 1024

LOAD_LIMIT == 100

\* lines 123-124: float(lines[k].strip().split()[0]); IndexError on a line
\* without fields, ValueError on a field that is not a number
first_field(line) == IF Len(line) = 0 THEN Failed ELSE ParseFloat(line[1])

\* detect_multiline with the first comparison made inclusive
detect_multiline_ge(lines) ==
    IF Len(lines) >= 2
    THEN LET first_field_0 == first_field(lines[1])
             first_field_1 == first_field(lines[2])
         IN IF first_field_0.ok /\ first_field_1.ok
            THEN ~RatLtInt(first_field_0.v, EPOCH) /\ RatLtInt(first_field_1.v, EPOCH)
            ELSE FALSE
    ELSE FALSE

\* lines 120-129
detect_multiline(lines) ==
    IF Len(lines) >= 2
    THEN LET first_field_0 == first_field(lines[1])
             first_field_1 == first_field(lines[2])
         IN IF first_field_0.ok /\ first_field_1.ok
            THEN RatGtInt(first_field_0.v, EPOCH) /\ RatLtInt(first_field_1.v, EPOCH)
            ELSE FALSE
    ELSE FALSE

\* extract_multiline without the test that skips the continuation lines
extract_multiline_no_skip(s, line) ==
    IF Len(line) < 3 THEN s
    ELSE LET ts == ParseFloat(line[1])
             v  == ParseFloat(line[2])
             m  == ParseFloat(line[3])
         IN IF ~ts.ok THEN s
            ELSE LET s1 == [s EXCEPT !.timestamps = Append(@, ts.v)] IN
                 IF ~v.ok THEN s1
                 ELSE LET s2 == [s1 EXCEPT !.values = Append(@, v.v)] IN
                      IF ~m.ok THEN s2
                      ELSE [s2 EXCEPT !.mem_used =
                                Append(@, RatDivInt(m.v, KB_PER_MB))]

\* lines 135-146, one iteration of the loop of the two-line format, on the
\* three lists s = [timestamps, values, mem_used].  The appends made before
\* a field raises stay.
extract_multiline(s, line) ==
    IF Len(line) < 3 THEN s
    ELSE LET ts == ParseFloat(line[1])
             v  == ParseFloat(line[2])
             m  == ParseFloat(line[3])
         IN IF ~ts.ok THEN s
            ELSE IF RatLtInt(ts.v, EPOCH) THEN s
            ELSE LET s1 == [s EXCEPT !.timestamps = Append(@, ts.v)] IN
                 IF ~v.ok THEN s1
                 ELSE LET s2 == [s1 EXCEPT !.values = Append(@, v.v)] IN
                      IF ~m.ok THEN s2
                      ELSE [s2 EXCEPT !.mem_used =
                                Append(@, RatDivInt(m.v, KB_PER_MB))]

\* lines 150-160, one iteration of the loop of the three-column format
extract_flat(s, line) ==
    IF Len(line) >= 3
    THEN LET ts == ParseFloat(line[1])
             v  == ParseFloat(line[2])
             m  == ParseFloat(line[3])
         IN IF ~ts.ok THEN s
            ELSE IF RatLtInt(ts.v, EPOCH) THEN s
            ELSE LET s1 == [s EXCEPT !.timestamps = Append(@, ts.v)] IN
                 IF ~v.ok THEN s1
                 ELSE LET s2 == [s1 EXCEPT !.values = Append(@, v.v)] IN
                      IF ~m.ok THEN s2
                      ELSE [s2 EXCEPT !.mem_used =
                                Append(@, RatDivInt(m.v, KB_PER_MB))]
    ELSE s

\* max() of a non-empty list
RECURSIVE max(_)
max(xs) == IF Len(xs) = 1 THEN xs[1]
           ELSE LET r == max(SubSeq(xs, 1, Len(xs) - 1))
                IN IF RatLt(r, xs[Len(xs)]) THEN xs[Len(xs)] ELSE r

\* classify_metric with the limit itself counted as a load average
classify_metric_le(multiline, vals) ==
    IF multiline THEN "cpu_percent"
    ELSE IF vals # <<>> /\ ~RatGtInt(max(vals), LOAD_LIMIT) THEN "load_avg"
    ELSE "cpu_percent"

\* lines 111, 133, 163-164: the metric type of the collected values
classify_metric(multiline, vals) ==
    IF multiline THEN "cpu_percent"
    ELSE IF vals # <<>> /\ RatLtInt(max(vals), LOAD_LIMIT) THEN "load_avg"
    ELSE "cpu_percent"

\* normalize with the last time as the origin
normalize_last_base(ts) ==
    IF ts # <<>>
    THEN LET t0 == ts[Len(ts)]
         IN [i \in 1..Len(ts) |-> RatDivInt(RatSub(ts[i], t0), SEC_PER_MIN)]
    ELSE ts

\* lines 166-168
normalize(ts) ==
    IF ts # <<>>
    THEN LET t0 == ts[1]
         IN [i \in 1..Len(ts) |-> RatDivInt(RatSub(ts[i], t0), SEC_PER_MIN)]
    ELSE ts

\* the whole function on a file, as its callers see it: line 113 returns
\* three values, line 175 four
parse_system_metrics(file) ==
    IF ~file.exists
    THEN <<(<<>>), (<<>>), (<<>>)>>
    ELSE LET lines == file.lines
             empty == [timestamps |-> <<>>, values |-> <<>>, mem_used |-> <<>>]
         IN Let(detect_multiline(lines), LAMBDA multiline :
            LET collect[k \in 0..Len(lines)] ==
                    IF k = 0 THEN empty
                    ELSE IF multiline
                    THEN extract_multiline(collect[k - 1], lines[k])
                    ELSE extract_flat(collect[k - 1], lines[k])
            IN Let(collect[Len(lines)], LAMBDA s :
                   <<normalize(s.timestamps), s.values, s.mem_used,
                     classify_metric(multiline, s.values)>>))

----------------------------------------------------------------------------
(* Inputs of parse_system_metrics *)

T_1700000000 == <<"1", "7", "0", "0", "0", "0", "0", "0", "0", "0">>
T_1700000060 == <<"1", "7", "0", "0", "0", "0", "0", "0", "6", "0">>
T_1700000180 == <<"1", "7", "0", "0", "0", "0", "0", "1", "8", "0">>
T_1000000000 == <<"1", "0", "0", "0", "0", "0", "0", "0", "0", "0">>
T_999999999 == <<"9", "9", "9", "9", "9", "9", "9", "9", "9">>
T_12 == <<"1", "2">>
T_345 == <<"3", "4", "5">>
T_8 == <<"8">>
T_7p5 == <<"7", ".", "5">>
T_99p9 == <<"9", "9", ".", "9">>
T_100 == <<"1", "0", "0">>
T_150 == <<"1", "5", "0">>
T_1024 == <<"1", "0", "2", "4">>
T_2048 == <<"2", "0", "4", "8">>
T_3000 == <<"3", "0", "0", "0">>
T_bad == <<"n", "/", "a">>

MetricLines ==
    { <<T_1700000000, T_8, T_2048>>,
      <<T_1700000060, T_99p9, T_1024>>,
      <<T_1700000180, T_100, T_3000>>,
      <<T_1700000060, T_150, T_2048, T_12, T_8>>,
      <<T_12, T_345>>,
      <<>>,
      <<T_1700000060, T_bad, T_1024>>,
      <<T_1700000180, T_7p5, T_bad>>,
      <<T_bad, T_8, T_2048>>,
      <<T_1000000000, T_7p5, T_1024>>,
      <<T_999999999, T_8, T_1024>>,
      <<T_1700000000, T_8>> }

RECURSIVE SeqsUpTo(_, _)
SeqsUpTo(S, k) ==
    IF k = 0 THEN {<<>>}
    ELSE LET shorter == SeqsUpTo(S, k - 1)
         IN shorter \cup {Append(q, x) : q \in shorter, x \in S}

\* a path that does not exist, or a file with its lines
NoFile == [exists |-> FALSE, lines |-> <<>>]

File(lines) == [exists |-> TRUE, lines |-> lines]

MetricFiles == {NoFile} \cup {File(l) : l \in SeqsUpTo(MetricLines, MaxLines)}

----------------------------------------------------------------------------
(* load_kernel_results (lines 178-242).  A directory is [exists, <file>    *)
(* ...]; a result is a function from the keys the code sets to their       *)
(* values; True, False and None are the strings "True", "False", "None".   *)

S_total_object_files == <<"t", "o", "t", "a", "l", "_", "o", "b", "j", "e", "c", "t", "_", "f", "i", "l", "e", "s">>

Raised == [ok |-> FALSE, v |-> EmptyDict]

Count(content, label) ==
    Cardinality({i \in 1..Len(content) : content[i].label = label})

\* line 235: exit_match and exit_match.group(1) == '0'
build_succeeded_of(content) ==
    IF matches(patterns.exit_status, content) = {} THEN "None"
    ELSE IF search(patterns.exit_status, content) = <<"0">> THEN "True"
    ELSE "False"

\* line 236 with the two tests in the other order
build_failed_at_compile_first(ld_errors, build_succeeded) ==
    IF build_succeeded # "True" THEN "compile"
    ELSE IF ld_errors > 0 THEN "link"
    ELSE "None"

\* line 236 with the success of the build tested first
build_failed_at_succeeded_first(ld_errors, build_succeeded) ==
    IF build_succeeded = "True" THEN "None"
    ELSE IF ld_errors > 0 THEN "link"
    ELSE "compile"

\* line 236
build_failed_at_of(ld_errors, build_succeeded) ==
    IF ld_errors > 0 THEN "link"
    ELSE IF build_succeeded # "True" THEN "compile"
    ELSE "None"

\* lines 193-194 and 238-239: the four targets of the assignment; ValueError
\* when parse_system_metrics returned three values
unpack_metrics(r, ret) ==
    Let(ret, LAMBDA t :
        IF Len(t) # 4 THEN Raised
        ELSE Ok(Put(Put(Put(Put(r, "metrics_time", t[1]), "metrics_cpu", t[2]),
                        "metrics_mem", t[3]), "metrics_type", t[4])))

\* lines 190-191 and 217-218
with_wall_clock(r) ==
    IF "wall_clock" \in DOMAIN r.compile_log
    THEN Let(parse_time_string(r.compile_log.wall_clock), LAMBDA sec :
             IF sec.ok THEN Ok(Put(r, "wall_clock_seconds", sec.v)) ELSE Raised)
    ELSE Ok(r)

\* lines 196-205: the count of the CC lines, or the declared total
gcc_files_compiled(r, compile_log) ==
    Let(IF compile_log.exists
        THEN Put(r, "cc_files_compiled", Count(compile_log.lines, "CC"))
        ELSE r,
        LAMBDA r1 :
            IF Get(r1, "cc_files_compiled", 0) = 0
            THEN Let(ParseInt(Get(r1.timing, S_total_object_files, <<"0">>)),
                     LAMBDA total :
                         IF total.ok
                         THEN Ok(Put(r1, "cc_files_compiled", total.v.n))
                         ELSE Raised)
            ELSE Ok(r1))

\* lines 185-207: the result of the GCC directory
load_kernel_gcc(gcc_dir) ==
    Let([system_info |-> parse_kv_file(gcc_dir.system_info),
         timing      |-> parse_kv_file(gcc_dir.timing),
         compile_log |-> parse_time_output(gcc_dir.compile_log)],
        LAMBDA r0 :
    Let(with_wall_clock(r0), LAMBDA r1 :
        IF ~r1.ok THEN Raised
        ELSE
    Let(unpack_metrics(Put(r1.v, "build_succeeded", "True"),
                       parse_system_metrics(gcc_dir.system_metrics)),
        LAMBDA r2 :
        IF ~r2.ok THEN Raised
        ELSE gcc_files_compiled(r2.v, gcc_dir.compile_log))))

\* lines 222-236: the counts and the outcome read from compile.log
ccc_build_outcome(r, compile_log) ==
    IF compile_log.exists
    THEN LET content == compile_log.lines
             ld_errors == Count(content, "undefined reference")
             build_succeeded == build_succeeded_of(content)
         IN Put(Put(Put(Put(r, "cc_files_compiled", Count(content, "CC")),
                        "linker_errors", ld_errors),
                    "build_succeeded", build_succeeded),
                "build_failed_at", build_failed_at_of(ld_errors, build_succeeded))
    ELSE r

\* lines 212-240: the result of the CCC directory
load_kernel_ccc(ccc_dir) ==
    Let([system_info  |-> parse_kv_file(ccc_dir.system_info),
         build_status |-> parse_kv_file(ccc_dir.build_status),
         compile_log  |-> parse_time_output(ccc_dir.compile_log)],
        LAMBDA r0 :
    Let(with_wall_clock(r0), LAMBDA r1 :
        IF ~r1.ok THEN Raised
        ELSE unpack_metrics(ccc_build_outcome(r1.v, ccc_dir.compile_log),
                            parse_system_metrics(ccc_dir.system_metrics))))

\* lines 178-242
load_kernel_results(disk) ==
    Let(IF disk.kernel_gcc.exists
        THEN Let(load_kernel_gcc(disk.kernel_gcc), LAMBDA gcc :
                 IF gcc.ok THEN Ok(Put(EmptyDict, "gcc", gcc.v)) ELSE Raised)
        ELSE Ok(EmptyDict),
        LAMBDA results :
            IF ~results.ok THEN Raised
            ELSE IF disk.kernel_ccc_v2.exists
            THEN Let(load_kernel_ccc(disk.kernel_ccc_v2), LAMBDA ccc :
                     IF ccc.ok THEN Ok(Put(results.v, "ccc", ccc.v)) ELSE Raised)
            ELSE results)

----------------------------------------------------------------------------
(* Inputs of load_kernel_results *)

LogLine(label, text) == [label |-> label, text |-> text]

Repeat(x, k) == [i \in 1..k |-> x]

ElapsedTexts ==
    { <<"1", ":", "1", "3", ":", "1", "1">>,
      <<"0", ":", "0", "6", ".", "9", "6">>,
      <<"1", ":", "2", ":", "3", ":", "4">>,
      <<"1", ":", ":", "1", "1">> }

ExitTexts == { <<"0">>, <<"1">> }

\* no line, or one line for each of the texts
OptLine(label, texts) == {<<>>} \cup {<<LogLine(label, t)>> : t \in texts}

CompileLogs ==
    {NoFile} \cup
    { File(Repeat(LogLine("CC", <<"a", ".", "o">>), cc)
           \o Repeat(LogLine("undefined reference", <<"f">>), ld)
           \o elapsed \o exit) :
        cc \in 0..MaxCC, ld \in 0..MaxUndef,
        elapsed \in OptLine("Elapsed (wall clock) time", ElapsedTexts),
        exit \in OptLine("Exit status", ExitTexts) }

TimingFiles ==
    { NoFile,
      File(<<<<"t", "o", "t", "a", "l", "_", "o", "b", "j", "e", "c", "t", "_", "f", "i", "l", "e", "s", ":", " ", "2">>>>),
      File(<<<<"t", "o", "t", "a", "l", "_", "o", "b", "j", "e", "c", "t", "_", "f", "i", "l", "e", "s", ":", " ", "n", "/", "a">>>>) }

\* build_status.txt of the CCC directory, with or without a declared total
BuildStatusFiles ==
    { NoFile,
      File(<<<<"t", "o", "t", "a", "l", "_", "o", "b", "j", "e", "c", "t", "_", "f", "i", "l", "e", "s", ":", " ", "2">>>>) }

SystemInfo == File(<<<<"c", "p", "u", "s", ":", " ", "8">>>>)

KernelMetricFiles ==
    { NoFile,
      File(<< <<T_1700000000, T_8, T_2048>>, <<T_1700000060, T_99p9, T_1024>> >>) }

NoDir(fields) == [f \in fields \cup {"exists"} |->
                     IF f = "exists" THEN FALSE ELSE NoFile]

KernelGccFields == {"system_info", "timing", "compile_log", "system_metrics"}

KernelCccFields == {"system_info", "build_status", "compile_log", "system_metrics"}

KernelGccDirs ==
    {NoDir(KernelGccFields)} \cup
    { [exists |-> TRUE, system_info |-> SystemInfo, timing |-> t,
       compile_log |-> c, system_metrics |-> m] :
        t \in TimingFiles, c \in CompileLogs, m \in KernelMetricFiles }

KernelCccDirs ==
    {NoDir(KernelCccFields)} \cup
    { [exists |-> TRUE, system_info |-> SystemInfo, build_status |-> b,
       compile_log |-> c, system_metrics |-> m] :
        b \in BuildStatusFiles, c \in CompileLogs, m \in KernelMetricFiles }

----------------------------------------------------------------------------
(* load_sqlite_results (lines 245-280) *)

Compilers == <<"gcc", "ccc">>

Opts == <<"O0", "O2">>

Tests == <<"compile", "speed">>

\* f'{test}_{opt}', as a key of the result and as a text
entry_key == [compile |-> [O0 |-> "compile_O0", O2 |-> "compile_O2"],
              speed   |-> [O0 |-> "speed_O0", O2 |-> "speed_O2"]]

name_text == [compile |-> <<"c", "o", "m", "p", "i", "l", "e">>,
              speed   |-> <<"s", "p", "e", "e", "d">>,
              O0      |-> <<"O", "0">>,
              O2      |-> <<"O", "2">>]

key_prefix(test, opt) == name_text[test] \o <<"_">> \o name_text[opt]

S_wall == <<"_", "w", "a", "l", "l">>

S_max_rss_kb == <<"_", "m", "a", "x", "_", "r", "s", "s", "_", "k", "b">>

\* lines 272-275 with the summary file taking precedence over the log
fallback_summary_first(entry, summ, test, opt) ==
    LET wall_key == key_prefix(test, opt) \o S_wall
        rss_key == key_prefix(test, opt) \o S_max_rss_kb
    IN Let(entry, LAMBDA e :
       Let(IF wall_key \in DOMAIN summ
           THEN Put(e, "wall_clock", summ[wall_key]) ELSE e,
           LAMBDA e1 :
               IF rss_key \in DOMAIN summ
               THEN Put(e1, "max_rss_kb", summ[rss_key]) ELSE e1))

\* lines 272-275: the fields of the entry taken from summary.txt
fallback(entry, summ, test, opt) ==
    LET wall_key == key_prefix(test, opt) \o S_wall
        rss_key == key_prefix(test, opt) \o S_max_rss_kb
    IN Let(entry, LAMBDA e :
       Let(IF wall_key \in DOMAIN summ /\ "wall_clock" \notin DOMAIN e
           THEN Put(e, "wall_clock", summ[wall_key]) ELSE e,
           LAMBDA e1 :
               IF rss_key \in DOMAIN summ /\ "max_rss_kb" \notin DOMAIN e1
               THEN Put(e1, "max_rss_kb", summ[rss_key]) ELSE e1))

\* lines 254-276: the result of one directory
load_sqlite_dir(d) ==
    Let(parse_kv_file(d.summary), LAMBDA summ :
        LET entry(test, opt) ==
                fallback(parse_time_output(d[entry_key[test][opt]]), summ, test, opt)
        IN [system_info  |-> parse_kv_file(d.system_info),
            binary_sizes |-> parse_kv_file(d.binary_sizes),
            summary      |-> summ,
            compile_O0   |-> entry("compile", "O0"),
            speed_O0     |-> entry("speed", "O0"),
            compile_O2   |-> entry("compile", "O2"),
            speed_O2     |-> entry("speed", "O2")])

sqlite_dir == [gcc |-> "sqlite_gcc_v2", ccc |-> "sqlite_ccc_v2"]

\* lines 245-280
load_sqlite_results(disk) ==
    LET present == {c \in {"gcc", "ccc"} : disk[sqlite_dir[c]].exists}
    IN [c \in present |-> load_sqlite_dir(disk[sqlite_dir[c]])]

----------------------------------------------------------------------------
(* Inputs of load_sqlite_results *)

WallLine(t) == LogLine("Elapsed (wall clock) time", t)

RssLine(t) == LogLine("Maximum resident set size", t)

TimeLogs ==
    { NoFile,
      File(<<WallLine(<<"0", ":", "0", "6", ".", "5", "0">>), RssLine(<<"2", "0", "4", "8">>)>>),
      File(<<WallLine(<<"0", ":", "0", "0", ".", "0", "0">>), RssLine(<<"0">>)>>),
      File(<<RssLine(<<"1", "0", "2", "4">>)>>) }

FewTimeLogs ==
    { NoFile,
      File(<<WallLine(<<"0", ":", "0", "3", ".", "2", "5">>), RssLine(<<"1", "0", "2", "4">>)>>) }

SummaryFiles ==
    { NoFile,
      File(<<<<"c", "o", "m", "p", "i", "l", "e", "_", "O", "0", "_", "w", "a", "l", "l", ":", " ", "1", ":", "1", "3", ":", "1", "1">>,
             <<"c", "o", "m", "p", "i", "l", "e", "_", "O", "0", "_", "m", "a", "x", "_", "r", "s", "s", "_", "k", "b", ":", " ", "4", "0", "9", "6">>>>) }

BinarySizeFiles ==
    { NoFile,
      File(<<<<"s", "q", "l", "i", "t", "e", "3", "_", "O", "0", "_", "b", "y", "t", "e", "s", ":", " ", "1", "0", "0", "0">>,
             <<"s", "q", "l", "i", "t", "e", "3", "_", "O", "2", "_", "b", "y", "t", "e", "s", ":", " ", "1", "0", "5", "0">>,
             <<"c", "r", "a", "s", "h", "_", "t", "e", "s", "t", "s", "_", "t", "o", "t", "a", "l", ":", " ", "5">>,
             <<"c", "r", "a", "s", "h", "_", "t", "e", "s", "t", "s", "_", "f", "a", "i", "l", "e", "d", ":", " ", "1">>>>),
      File(<<<<"s", "q", "l", "i", "t", "e", "3", "_", "O", "0", "_", "b", "y", "t", "e", "s", ":", " ", "n", "/", "a">>>>) }

SqliteFields == {"system_info", "binary_sizes", "summary",
                 "compile_O0", "speed_O0", "compile_O2", "speed_O2"}

SqliteDirs ==
    {NoDir(SqliteFields)} \cup
    { [exists |-> TRUE, system_info |-> SystemInfo, binary_sizes |-> b,
       summary |-> u, compile_O0 |-> c0, speed_O0 |-> s0, compile_O2 |-> c2,
       speed_O2 |-> NoFile] :
        b \in BinarySizeFiles, u \in SummaryFiles, c0 \in TimeLogs,
        s0 \in FewTimeLogs, c2 \in FewTimeLogs }

----------------------------------------------------------------------------
(* generate_summary (lines 732-842).  The report is the record of the      *)
(* values the function prints, row by row.                                 *)

S_sqlite3 == <<"s", "q", "l", "i", "t", "e", "3", "_">>

S_bytes == <<"_", "b", "y", "t", "e", "s">>

S_crash_tests_total == <<"c", "r", "a", "s", "h", "_", "t", "e", "s", "t", "s", "_", "t", "o", "t", "a", "l">>

S_crash_tests_failed == <<"c", "r", "a", "s", "h", "_", "t", "e", "s", "t", "s", "_", "f", "a", "i", "l", "e", "d">>

ROUND_DIGITS == 10

NOTE_LIMIT == 100

\* format(x, '.1f'): the number of tenths nearest to x
Tenths(x) == (2 * ROUND_DIGITS * x.n + x.d) \div (2 * x.d)

\* int(data.get(key, 0)) and float(data.get(key, 0)) on a mapping of texts
int_of(data, key) == IF key \in DOMAIN data THEN ParseInt(data[key]) ELSE Ok(RatInt(0))

float_of(data, key) == IF key \in DOMAIN data THEN ParseFloat(data[key]) ELSE Ok(RatInt(0))

\* lines 742-753
summary_kernel(r) ==
    LET cl == Get(r, "compile_log", EmptyDict)
        wall == Get(r, "wall_clock_seconds", RatInt(0))
        user == float_of(cl, "user_time")
        sys == float_of(cl, "system_time")
        rss == int_of(cl, "max_rss_kb")
    IN IF user.ok /\ sys.ok /\ rss.ok
       THEN Ok([wall_clock_seconds  |-> wall,
                wall_clock_human    |-> Tenths(RatDivInt(wall, SEC_PER_MIN)),
                user_time_seconds   |-> user.v,
                system_time_seconds |-> sys.v,
                peak_rss_mb         |-> RatDivInt(rss.v, KB_PER_MB),
                cpu_percent         |-> Get(cl, "cpu_percent", <<"N", "/", "A">>),
                build_succeeded     |-> Get(r, "build_succeeded", "False"),
                build_failed_at     |-> Get(r, "build_failed_at", "None"),
                cc_files_compiled   |-> Get(r, "cc_files_compiled", 0),
                linker_errors       |-> Get(r, "linker_errors", 0)])
       ELSE Raised

\* lines 762-770
summary_opt(r, opt) ==
    LET compile_data == Get(r, entry_key.compile[opt], EmptyDict)
        speed_data == Get(r, entry_key.speed[opt], EmptyDict)
        binary_sizes == Get(r, "binary_sizes", EmptyDict)
        ct == parse_time_string(Get(compile_data, "wall_clock", <<"0">>))
        cm == int_of(compile_data, "max_rss_kb")
        rt == parse_time_string(Get(speed_data, "wall_clock", <<"0">>))
        rm == int_of(speed_data, "max_rss_kb")
        bs == int_of(binary_sizes, S_sqlite3 \o name_text[opt] \o S_bytes)
    IN IF ct.ok /\ cm.ok /\ rt.ok /\ rm.ok /\ bs.ok
       THEN Ok([compile_time_seconds |-> ct.v,
                compile_peak_rss_mb  |-> RatDivInt(cm.v, KB_PER_MB),
                runtime_seconds      |-> rt.v,
                runtime_peak_rss_mb  |-> RatDivInt(rm.v, KB_PER_MB),
                binary_size_bytes    |-> bs.v.n])
       ELSE Raised

\* lines 760-774
summary_sqlite(r) ==
    LET O0 == summary_opt(r, "O0")
        O2 == summary_opt(r, "O2")
        binary_sizes == Get(r, "binary_sizes", EmptyDict)
        total == int_of(binary_sizes, S_crash_tests_total)
        failed == int_of(binary_sizes, S_crash_tests_failed)
    IN Let(<<O0, O2, total, failed>>, LAMBDA t :
           IF t[1].ok /\ t[2].ok /\ t[3].ok /\ t[4].ok
           THEN Ok([O0 |-> t[1].v, O2 |-> t[2].v,
                    crash_tests |-> [total |-> t[3].v.n, failed |-> t[4].v.n]])
           ELSE Raised)

\* lines 815, 817, 820, 824: c / g if g > 0 else 0
ratio(c, g) == IF g.n > 0 THEN RatDiv(c, g) ELSE RatInt(0)

\* lines 788-802: the rows of the kernel table
report_kernel(kg, kc) ==
    [build_result     |-> <<"SUCCESS", "LINK FAILED">>,
     compilation_time |-> <<kg.wall_clock_human, kc.wall_clock_human>>,
     user_cpu_time    |-> <<Tenths(RatDivInt(kg.user_time_seconds, SEC_PER_MIN)),
                            Tenths(RatDivInt(kc.user_time_seconds, SEC_PER_MIN))>>,
     peak_rss         |-> <<kg.peak_rss_mb, kc.peak_rss_mb>>,
     c_files_compiled |-> <<kg.cc_files_compiled, kc.cc_files_compiled>>,
     compiler_errors  |-> <<0, 0>>,
     linker_errors    |-> <<0, kc.linker_errors>>]

\* lines 814-825: the rows of one optimization level
report_opt(g, c) ==
    [compile_time |-> <<g.compile_time_seconds, c.compile_time_seconds>>,
     ct_ratio |-> ratio(c.compile_time_seconds, g.compile_time_seconds),
     bs_ratio |-> ratio(RatInt(c.binary_size_bytes), RatInt(g.binary_size_bytes)),
     runtime  |-> IF c.runtime_seconds.n > 0 THEN "ratio" ELSE "(running...)",
     rt_ratio |-> IF c.runtime_seconds.n > 0
                  THEN ratio(c.runtime_seconds, g.runtime_seconds)
                  ELSE RatInt(0),
     cm_ratio |-> ratio(c.compile_peak_rss_mb, g.compile_peak_rss_mb)]

\* lines 805-839: the SQLite table
report_sqlite(sg, sc) ==
    [O0 |-> report_opt(sg.O0, sc.O0),
     O2 |-> report_opt(sg.O2, sc.O2),
     crash_tests |-> <<sg.crash_tests.total - sg.crash_tests.failed,
                       sc.crash_tests.total - sc.crash_tests.failed>>,
     identical_note |->
         /\ sc.O0.binary_size_bytes > 0
         /\ Abs(sc.O0.binary_size_bytes - sc.O2.binary_size_bytes) < NOTE_LIMIT]

\* lines 787-839: the tables printed for the subjects present on both sides
report_of(summ) ==
    LET both(m) == "gcc" \in DOMAIN m /\ "ccc" \in DOMAIN m
    IN [kernel |-> IF both(summ.kernel)
                   THEN <<report_kernel(summ.kernel.gcc, summ.kernel.ccc)>>
                   ELSE <<>>,
        sqlite |-> IF both(summ.sqlite)
                   THEN <<report_sqlite(summ.sqlite.gcc, summ.sqlite.ccc)>>
                   ELSE <<>>]

\* lines 777-779 with the file opened for appending
write_json_append(old, doc) == old \o <<doc>>

\* lines 777-779: open(json_path, 'w') empties the file, json.dump writes the
\* document
write_json(old, doc) == <<doc>>

\* lines 732-842: [summary, report], or the error raised by a conversion
generate_summary(kernel, sqlite) ==
    Let([c \in DOMAIN kernel |-> summary_kernel(kernel[c])], LAMBDA k :
    Let([c \in DOMAIN sqlite |-> summary_sqlite(sqlite[c])], LAMBDA q :
        IF (\E c \in DOMAIN k : ~k[c].ok) \/ (\E c \in DOMAIN q : ~q[c].ok)
        THEN Raised
        ELSE Let([kernel |-> [c \in DOMAIN k |-> k[c].v],
                  sqlite |-> [c \in DOMAIN q |-> q[c].v]],
                 LAMBDA summ : Ok([summary |-> summ, report |-> report_of(summ)]))))

----------------------------------------------------------------------------
(* main (lines 845-862): the two loaders, then generate_summary.  The      *)
(* plotting calls between them do not change the results.                  *)

NoKernel == [kernel_gcc |-> NoDir(KernelGccFields),
             kernel_ccc_v2 |-> NoDir(KernelCccFields)]

NoSqlite == [sqlite_gcc_v2 |-> NoDir(SqliteFields),
             sqlite_ccc_v2 |-> NoDir(SqliteFields)]

\* one complete directory of each kind
GoodLog ==
    File(<<LogLine("CC", <<"a", ".", "o">>),
           LogLine("Elapsed (wall clock) time", <<"1", ":", "1", "3", ":", "1", "1">>),
           LogLine("Exit status", <<"0">>)>>)

GoodMetrics ==
    File(<< <<T_1700000000, T_8, T_2048>>, <<T_1700000060, T_99p9, T_1024>> >>)

GoodKernelGcc ==
    [exists |-> TRUE, system_info |-> SystemInfo, timing |-> NoFile,
     compile_log |-> GoodLog, system_metrics |-> GoodMetrics]

GoodKernelCcc ==
    [exists |-> TRUE, system_info |-> SystemInfo, build_status |-> NoFile,
     compile_log |-> GoodLog, system_metrics |-> GoodMetrics]

GoodSqlite ==
    [exists |-> TRUE, system_info |-> SystemInfo,
     binary_sizes |-> File(<<<<"s", "q", "l", "i", "t", "e", "3", "_", "O", "0", "_", "b", "y", "t", "e", "s", ":", " ", "1", "0", "0", "0">>,
                             <<"s", "q", "l", "i", "t", "e", "3", "_", "O", "2", "_", "b", "y", "t", "e", "s", ":", " ", "1", "0", "5", "0">>>>),
     summary |-> NoFile,
     compile_O0 |-> File(<<WallLine(<<"0", ":", "0", "6", ".", "5", "0">>), RssLine(<<"2", "0", "4", "8">>)>>),
     speed_O0 |-> File(<<WallLine(<<"0", ":", "0", "3", ".", "2", "5">>), RssLine(<<"1", "0", "2", "4">>)>>),
     compile_O2 |-> File(<<WallLine(<<"0", ":", "0", "3", ".", "2", "5">>), RssLine(<<"1", "0", "2", "4">>)>>),
     speed_O2 |-> NoFile]

\* the disks of the model: one directory varies over all its contents while
\* the other directory of the same benchmark is missing or complete, and the
\* directories of the other benchmark are missing
Disks ==
    { NoSqlite @@ [kernel_gcc |-> g, kernel_ccc_v2 |-> c] :
        g \in KernelGccDirs, c \in {NoDir(KernelCccFields), GoodKernelCcc} }
    \cup
    { NoSqlite @@ [kernel_gcc |-> g, kernel_ccc_v2 |-> c] :
        g \in {NoDir(KernelGccFields), GoodKernelGcc}, c \in KernelCccDirs }
    \cup
    { NoKernel @@ [sqlite_gcc_v2 |-> g, sqlite_ccc_v2 |-> c] :
        g \in SqliteDirs, c \in {NoDir(SqliteFields), GoodSqlite} }
    \cup
    { NoKernel @@ [sqlite_gcc_v2 |-> g, sqlite_ccc_v2 |-> c] :
        g \in {NoDir(SqliteFields), GoodSqlite}, c \in SqliteDirs }

NoReport == [kernel |-> <<>>, sqlite |-> <<>>]

NoSummary == [kernel |-> EmptyDict, sqlite |-> EmptyDict]

\* the values of the variables of parse_system_metrics while main runs
MIdle ==
    /\ m_pc = "idle"
    /\ m_file = NoFile
    /\ m_idx = 1
    /\ is_multiline = FALSE
    /\ timestamps = <<>>
    /\ values = <<>>
    /\ mem_used = <<>>
    /\ metric_type = "cpu_percent"
    /\ m_ret = <<>>

\* the values of the variables of main while parse_system_metrics is run alone
PIdle ==
    /\ pc = "idle"
    /\ fs = NoKernel @@ NoSqlite
    /\ kernel_results = EmptyDict
    /\ sqlite_results = EmptyDict
    /\ summary = NoSummary
    /\ report = NoReport
    /\ summary_json = <<>>
    /\ calls = <<>>

\* the values of the variables of a parser called alone while main or
\* parse_system_metrics runs
FIdle ==
    /\ f_pc = "idle"
    /\ f_time_str = <<>>
    /\ f_seconds = Failed
    /\ f_kv_file = NoFile
    /\ f_kv_data = EmptyDict
    /\ f_log_file = NoFile
    /\ f_log_data = EmptyDict

Init ==
    /\ MIdle
    /\ FIdle
    /\ pc = "load_kernel"
    /\ fs \in Disks
    /\ kernel_results = EmptyDict
    /\ sqlite_results = EmptyDict
    /\ summary = NoSummary
    /\ report = NoReport
    /\ summary_json = <<>>
    /\ calls = <<>>

\* line 851
LoadKernelResults ==
    /\ pc = "load_kernel"
    /\ \E res \in {load_kernel_results(fs)} :
          IF res.ok
          THEN kernel_results' = res.v /\ pc' = "load_sqlite"
          ELSE kernel_results' = kernel_results /\ pc' = "load_kernel_raised"
    /\ UNCHANGED <<fs, sqlite_results, summary, report, summary_json, calls>>
    /\ UNCHANGED <<mvars, fvars>>

\* line 852
LoadSqliteResults ==
    /\ pc = "load_sqlite"
    /\ sqlite_results' = load_sqlite_results(fs)
    /\ pc' = "generate_summary"
    /\ UNCHANGED <<fs, kernel_results, summary, report, summary_json, calls>>
    /\ UNCHANGED <<mvars, fvars>>

\* one invocation of generate_summary: the summary built is written to
\* summary.json and returned, the report is printed; an error raised by a
\* conversion of lines 742-774 leaves the function before it wrote anything
InvokeGenerateSummary ==
    /\ \E res \in {generate_summary(kernel_results, sqlite_results)} :
          /\ calls' = Append(calls, res)
          /\ IF res.ok
             THEN /\ summary' = res.v.summary
                  /\ report' = res.v.report
                  /\ summary_json' = write_json(summary_json, res.v.summary)
                  /\ pc' = "done"
             ELSE /\ UNCHANGED <<summary, report, summary_json>>
                  /\ pc' = "generate_summary_raised"
    /\ UNCHANGED <<fs, kernel_results, sqlite_results>>
    /\ UNCHANGED <<mvars, fvars>>

\* line 862
GenerateSummary ==
    /\ pc = "generate_summary"
    /\ InvokeGenerateSummary

Next ==
    \/ LoadKernelResults
    \/ LoadSqliteResults
    \/ GenerateSummary

Spec == Init /\ [][Next]_vars

----------------------------------------------------------------------------
(* generate_summary invoked again on the results main loaded *)

\* main at line 862, the two loaders having returned
InitSummary ==
    /\ MIdle
    /\ FIdle
    /\ pc = "generate_summary"
    /\ fs \in Disks
    /\ \E res \in {load_kernel_results(fs)} :
          res.ok /\ kernel_results = res.v
    /\ sqlite_results = load_sqlite_results(fs)
    /\ summary = NoSummary
    /\ report = NoReport
    /\ summary_json = <<>>
    /\ calls = <<>>

\* generate_summary(kernel_results, sqlite_results) once more
GenerateSummaryAgain ==
    /\ pc \in {"done", "generate_summary_raised"}
    /\ Len(calls) < MaxCalls
    /\ InvokeGenerateSummary

NextSummary ==
    \/ GenerateSummary
    \/ GenerateSummaryAgain

SpecSummary == InitSummary /\ [][NextSummary]_vars

----------------------------------------------------------------------------
(* parse_time_string, parse_kv_file and parse_time_output called alone *)

TimeStrings ==
    { <<>>,
      <<"1", ":", "1", "3", ":", "1", "1">>,
      <<"0", ":", "0", "6", ".", "9", "6">>,
      <<"4", "2", ".", "5">>,
      <<"7">>,
      <<" ", "2", ":", "0", "3", ":", "0", "4", ".", "5", " ">>,
      <<"1", "0", ":", "0", "0">>,
      <<"1", ":", "2", ":", "3", ":", "4">>,
      <<"1", ":", ":", "1", "1">>,
      <<"1", ".", "5", ":", "0", "2", ":", "0", "3">>,
      <<"x", ":", "3", "0">>,
      <<"a", "b", "c">> }

KvLines ==
    { <<"a", ":", " ", "1">>,
      <<"a", ":", " ", "2">>,
      <<" ", "b", " ", ":", "3", " ">>,
      <<"t", ":", " ", "1", ":", "1", "3">>,
      <<"n", "o", " ", "c", "o", "l", "o", "n">>,
      <<"a", ":">> }

KvFiles == {NoFile} \cup {File(lines) : lines \in SeqsUpTo(KvLines, MaxKvLines)}

TimeOutputLines ==
    { WallLine(<<"1", ":", "1", "3", ":", "1", "1">>),
      WallLine(<<"n", "/", "a">>),
      RssLine(<<"2", "0", "4", "8">>),
      LogLine("User time (seconds)", <<"1", "2", ".", "5">>),
      LogLine("Percent of CPU", <<"9", "9", "%">>),
      LogLine("Exit status", <<"0">>),
      LogLine("Exit status", <<"1">>),
      LogLine("Exit status", <<"n", "/", "a">>),
      LogLine("CC", <<"a", ".", "o">>) }

TimeOutputFiles ==
    {NoFile} \cup {File(lines) : lines \in SeqsUpTo(TimeOutputLines, MaxLogLines)}

InitParsers ==
    /\ MIdle
    /\ PIdle
    /\ \/ /\ f_pc = "call_parse_time_string"
          /\ f_time_str \in TimeStrings
          /\ f_kv_file = NoFile
          /\ f_log_file = NoFile
       \/ /\ f_pc = "call_parse_kv_file"
          /\ f_time_str = <<>>
          /\ f_kv_file \in KvFiles
          /\ f_log_file = NoFile
       \/ /\ f_pc = "call_parse_time_output"
          /\ f_time_str = <<>>
          /\ f_kv_file = NoFile
          /\ f_log_file \in TimeOutputFiles
    /\ f_seconds = Failed
    /\ f_kv_data = EmptyDict
    /\ f_log_data = EmptyDict

\* lines 40-51
CallParseTimeString ==
    /\ f_pc = "call_parse_time_string"
    /\ f_seconds' = parse_time_string(f_time_str)
    /\ f_pc' = "returned_parse_time_string"
    /\ UNCHANGED <<f_time_str, f_kv_file, f_kv_data, f_log_file, f_log_data>>
    /\ UNCHANGED <<mvars, pvars>>

\* lines 54-65
CallParseKvFile ==
    /\ f_pc = "call_parse_kv_file"
    /\ f_kv_data' = parse_kv_file(f_kv_file)
    /\ f_pc' = "returned_parse_kv_file"
    /\ UNCHANGED <<f_time_str, f_seconds, f_kv_file, f_log_file, f_log_data>>
    /\ UNCHANGED <<mvars, pvars>>

\* lines 68-94
CallParseTimeOutput ==
    /\ f_pc = "call_parse_time_output"
    /\ f_log_data' = parse_time_output(f_log_file)
    /\ f_pc' = "returned_parse_time_output"
    /\ UNCHANGED <<f_time_str, f_seconds, f_kv_file, f_kv_data, f_log_file>>
    /\ UNCHANGED <<mvars, pvars>>

NextParsers ==
    \/ CallParseTimeString
    \/ CallParseKvFile
    \/ CallParseTimeOutput

SpecParsers == InitParsers /\ [][NextParsers]_vars

----------------------------------------------------------------------------
(* parse_system_metrics, statement by statement *)

lists == [timestamps |-> timestamps, values |-> values, mem_used |-> mem_used]

MInit ==
    /\ m_pc = "start"
    /\ m_file \in MetricFiles
    /\ m_idx = 1
    /\ is_multiline = FALSE
    /\ timestamps = <<>>
    /\ values = <<>>
    /\ mem_used = <<>>
    /\ metric_type = "cpu_percent"
    /\ m_ret = <<>>

\* lines 112-113: the file does not exist
MReturnMissing ==
    /\ m_pc = "start"
    /\ ~m_file.exists
    /\ m_pc' = "returned"
    /\ m_ret' = <<timestamps, values, mem_used>>
    /\ UNCHANGED <<m_file, m_idx, is_multiline, timestamps, values, mem_used,
                   metric_type>>
    /\ UNCHANGED <<pvars, fvars>>

\* lines 115-129: read the lines and detect the format
MDetect ==
    /\ m_pc = "start"
    /\ m_file.exists
    /\ is_multiline' = detect_multiline(m_file.lines)
    /\ m_pc' = "extract"
    /\ UNCHANGED <<m_file, m_idx, timestamps, values, mem_used, metric_type,
                   m_ret>>
    /\ UNCHANGED <<pvars, fvars>>

\* lines 134-146: one line of the two-line format
MExtractMultiline ==
    /\ m_pc = "extract"
    /\ is_multiline
    /\ m_idx <= Len(m_file.lines)
    /\ LET s == extract_multiline(lists, m_file.lines[m_idx])
       IN /\ timestamps' = s.timestamps
          /\ values' = s.values
          /\ mem_used' = s.mem_used
    /\ m_idx' = m_idx + 1
    /\ UNCHANGED <<m_pc, m_file, is_multiline, metric_type, m_ret>>
    /\ UNCHANGED <<pvars, fvars>>

\* lines 149-160: one line of the three-column format
MExtractFlat ==
    /\ m_pc = "extract"
    /\ ~is_multiline
    /\ m_idx <= Len(m_file.lines)
    /\ LET s == extract_flat(lists, m_file.lines[m_idx])
       IN /\ timestamps' = s.timestamps
          /\ values' = s.values
          /\ mem_used' = s.mem_used
    /\ m_idx' = m_idx + 1
    /\ UNCHANGED <<m_pc, m_file, is_multiline, metric_type, m_ret>>
    /\ UNCHANGED <<pvars, fvars>>

\* lines 133, 163-164: the loop is over, set the metric type
MClassify ==
    /\ m_pc = "extract"
    /\ m_idx > Len(m_file.lines)
    /\ metric_type' = classify_metric(is_multiline, values)
    /\ m_pc' = "normalize"
    /\ UNCHANGED <<m_file, m_idx, is_multiline, timestamps, values, mem_used,
                   m_ret>>
    /\ UNCHANGED <<pvars, fvars>>

\* lines 166-175: normalize the times and return
MNormalize ==
    /\ m_pc = "normalize"
    /\ timestamps' = normalize(timestamps)
    /\ m_ret' = <<timestamps', values, mem_used, metric_type>>
    /\ m_pc' = "returned"
    /\ UNCHANGED <<m_file, m_idx, is_multiline, values, mem_used, metric_type>>
    /\ UNCHANGED <<pvars, fvars>>

MNext ==
    \/ MReturnMissing
    \/ MDetect
    \/ MExtractMultiline
    \/ MExtractFlat
    \/ MClassify
    \/ MNormalize

InitMetrics == MInit /\ PIdle /\ FIdle

SpecMetrics == InitMetrics /\ [][MNext]_vars

----------------------------------------------------------------------------
(* Properties of parse_system_metrics *)

\* the value of a field that is a number
Num(field) == ParseFloat(field).v

IsNum(field) == ParseFloat(field).ok

AtLeastEpoch(field) == IsNum(field) /\ Num(field).n >= EPOCH * Num(field).d

Grew(old, new) == Len(new) = Len(old) + 1

Last(q) == q[Len(q)]

\* C3 (as stated): a line with a malformed number in field 0, 1 or 2 adds
\* nothing to any of the three sequences, so the timestamp, activity and
\* memory sequences always have the same length.
C3_EqualLengths ==
    /\ Len(timestamps) = Len(values)
    /\ Len(values) = Len(mem_used)

\* C4: the file is taken as the two-line (interleaved) format exactly when
\* it has two lines or more, the first field of line 1 is a number above
\* 1e9 and the first field of line 2 is a number below 1e9; every other
\* file, a parse failure and an empty line included, is taken as flat.
C4_FormatDetection ==
    (m_file.exists /\ m_pc # "start") =>
        LET l == m_file.lines IN
        is_multiline <=>
            /\ Len(l) >= 2
            /\ l[1] # <<>> /\ l[2] # <<>>
            /\ IsNum(l[1][1]) /\ IsNum(l[2][1])
            /\ Num(l[1][1]).n > EPOCH * Num(l[1][1]).d
            /\ Num(l[2][1]).n < EPOCH * Num(l[2][1]).d

C4_Witness ==
    /\ m_pc = "returned"
    /\ is_multiline
    /\ Len(m_ret[1]) > 0

\* C5: for a flat file the metric type returned is 'load_avg' if there is
\* an activity value and every activity value is below 100, and
\* 'cpu_percent' otherwise (a value of 100 or more, or no value at all).
C5_MetricKind ==
    (m_pc = "returned" /\ m_file.exists /\ ~is_multiline) =>
        LET vals == m_ret[2] IN
        m_ret[4] = IF /\ vals # <<>>
                      /\ \A i \in 1..Len(vals) : vals[i].n < LOAD_LIMIT * vals[i].d
                   THEN "load_avg" ELSE "cpu_percent"

C5_Witness ==
    /\ m_pc = "returned"
    /\ m_file.exists
    /\ ~is_multiline
    /\ Len(m_ret[2]) >= 2
    /\ m_ret[4] = "load_avg"

\* a step of the loop of the interleaved format that reads the line
ReadsInterleaved(line) ==
    /\ m_pc = "extract" /\ is_multiline
    /\ m_idx <= Len(m_file.lines)
    /\ m_idx' = m_idx + 1
    /\ line = m_file.lines[m_idx]

\* the step adds one sample: one element to each of the three sequences
YieldsSample ==
    /\ Grew(timestamps, timestamps')
    /\ Grew(values, values')
    /\ Grew(mem_used, mem_used')

\* C6 (as stated): in an interleaved file a line yields a sample if and only
\* if it has 3 fields or more and its first field is a number >= 1e9.
C6_QualifiesByFirstField ==
    [][\A line \in MetricLines :
          ReadsInterleaved(line) =>
             (YieldsSample <=> (Len(line) >= 3 /\ AtLeastEpoch(line[1])))]_vars

\* C6 (amended): in an interleaved file a line adds one element to each of
\* the three sequences if and only if it has 3 fields or more, its first
\* field is a number >= 1e9 and its fields 1 and 2 are numbers; the
\* elements added are field 0, field 1 and field 2 / 1024, and a line that
\* does not add them leaves the memory sequence as it was; the metric type
\* returned for an interleaved file is 'cpu_percent'.
C6_InterleavedExtraction ==
    [][/\ \A line \in MetricLines :
            ReadsInterleaved(line) =>
               /\ YieldsSample <=>
                     /\ Len(line) >= 3
                     /\ AtLeastEpoch(line[1])
                     /\ IsNum(line[2]) /\ IsNum(line[3])
               /\ YieldsSample =>
                     /\ Last(timestamps') = Num(line[1])
                     /\ Last(values') = Num(line[2])
                     /\ Last(mem_used').n * KB_PER_MB * Num(line[3]).d
                           = Num(line[3]).n * Last(mem_used').d
               /\ ~YieldsSample => mem_used' = mem_used
       /\ (m_pc' = "returned" /\ is_multiline') => m_ret'[4] = "cpu_percent"]_vars

C6_Witness ==
    /\ m_pc = "returned"
    /\ is_multiline
    /\ Len(m_ret[3]) >= 1
    /\ Len(m_file.lines) > Len(m_ret[3])
    /\ \A i \in 1..Len(m_ret[2]) : m_ret[2][i].n < LOAD_LIMIT * m_ret[2][i].d

\* C7: the times returned are (epoch time - first epoch time) / 60, sample
\* by sample, so that the first one is 0; with no sample the empty sequence
\* is returned as it is.
C7_TimeNormalization ==
    [][(m_pc = "normalize" /\ m_pc' = "returned") =>
          /\ m_ret'[1] = timestamps'
          /\ Len(timestamps') = Len(timestamps)
          /\ \A i \in 1..Len(timestamps) :
                LET delta == timestamps[i].n * timestamps[1].d
                               - timestamps[1].n * timestamps[i].d
                    r == timestamps'[i]
                IN r.n * SEC_PER_MIN * timestamps[i].d * timestamps[1].d
                       = delta * r.d
          /\ timestamps # <<>> => timestamps'[1] = RatInt(0)]_vars

C7_Witness ==
    /\ m_pc = "returned"
    /\ m_file.exists
    /\ Len(m_ret[1]) >= 3
    /\ m_ret[1][2] = RatInt(1)
    /\ m_ret[1][3] = RatInt(3)

----------------------------------------------------------------------------
(* Properties of the loaders and of generate_summary *)

kernel_dir == [gcc |-> "kernel_gcc", ccc |-> "kernel_ccc_v2"]

KernelLoaded == pc \in {"load_sqlite", "generate_summary", "done",
                        "generate_summary_raised"}

KernelReturned == KernelLoaded \/ pc = "load_kernel_raised"

ExistingKernel == {c \in {"gcc", "ccc"} : fs[kernel_dir[c]].exists}

\* the elapsed time found in compile.log, if any, is one parse_time_string
\* accepts
ElapsedWellFormed(d) ==
    LET cl == parse_time_output(d.compile_log)
    IN "wall_clock" \in DOMAIN cl => parse_time_string(cl.wall_clock).ok

\* the declared total of timing.txt, if any, is an integer
TotalWellFormed(d) ==
    LET timing == parse_kv_file(d.timing)
    IN S_total_object_files \in DOMAIN timing =>
          ParseInt(timing[S_total_object_files]).ok

WellFormed(c) ==
    /\ ElapsedWellFormed(fs[kernel_dir[c]])
    /\ c = "gcc" => TotalWellFormed(fs[kernel_dir[c]])

\* C1 (as stated): when a subject's directory exists and its
\* system_metrics.log does not (the other files being well-formed), the
\* loader completes and stores the subject's result with empty
\* metrics_time, metrics_cpu and metrics_mem.
C1_MissingMetricsTolerated ==
    (/\ KernelReturned
     /\ \A c \in ExistingKernel : WellFormed(c)
     /\ \E c \in ExistingKernel : ~fs[kernel_dir[c]].system_metrics.exists)
    => /\ pc # "load_kernel_raised"
       /\ \A c \in ExistingKernel :
             ~fs[kernel_dir[c]].system_metrics.exists =>
                /\ c \in DOMAIN kernel_results
                /\ kernel_results[c].metrics_time = <<>>
                /\ kernel_results[c].metrics_cpu = <<>>
                /\ kernel_results[c].metrics_mem = <<>>

\* C2 (as stated): whatever the files of the existing subject directories
\* contain (a malformed elapsed time, a declared total that is not an
\* integer), the loaders return a mapping and do not raise.
C2_LoadersNeverRaise ==
    (/\ KernelReturned
     /\ \A c \in ExistingKernel : fs[kernel_dir[c]].system_metrics.exists)
    => pc # "load_kernel_raised"

\* C8 (as stated): in the ratios of generate_summary, a zero or absent GCC
\* value gives an 'undefined' ratio, which is not the number 0.
C8_UndefinedRatio ==
    (pc = "done" /\ report.sqlite # <<>>) =>
        \A opt \in {"O0", "O2"} :
            LET g == summary.sqlite.gcc[opt]
                c == summary.sqlite.ccc[opt]
                row == report.sqlite[1][opt]
            IN /\ g.compile_time_seconds.n = 0 => row.ct_ratio # RatInt(0)
               /\ g.binary_size_bytes = 0 => row.bs_ratio # RatInt(0)
               /\ (c.runtime_seconds.n > 0 /\ g.runtime_seconds.n = 0)
                     => row.rt_ratio # RatInt(0)
               /\ g.compile_peak_rss_mb.n = 0 => row.cm_ratio # RatInt(0)

\* the exit status of the subject's compile.log is the success code
ExitedWithSuccess(c) ==
    LET log == fs[kernel_dir[c]].compile_log IN
    /\ log.exists
    /\ \E i \in 1..Len(log.lines) :
          /\ log.lines[i].label = "Exit status"
          /\ log.lines[i].text = <<"0">>
          /\ \A j \in 1..(i - 1) : log.lines[j].label # "Exit status"

\* C9 (as stated): for every subject loaded, GCC and CCC alike,
\* build_succeeded is true only if the exit status found in the subject's
\* compile.log is 0.
C9_SucceededOnlyOnExitZero ==
    KernelLoaded =>
        \A c \in DOMAIN kernel_results :
            ("build_succeeded" \in DOMAIN kernel_results[c]
                /\ kernel_results[c].build_succeeded = "True")
            => ExitedWithSuccess(c)

\* C10: when the loader classifies the build from compile.log, the failure
\* stage is 'link' if the count of linker errors is above 0, otherwise
\* 'compile' if build_succeeded is not true, otherwise None.
C10_FailureStage ==
    (KernelLoaded /\ "ccc" \in DOMAIN kernel_results) =>
        LET r == kernel_results.ccc
            log == fs.kernel_ccc_v2.compile_log
        IN /\ log.exists <=> "build_failed_at" \in DOMAIN r
           /\ log.exists =>
                 /\ r.linker_errors =
                       Cardinality({i \in 1..Len(log.lines) :
                                       log.lines[i].label = "undefined reference"})
                 /\ r.linker_errors > 0 => r.build_failed_at = "link"
                 /\ (r.linker_errors = 0 /\ r.build_succeeded # "True")
                       => r.build_failed_at = "compile"
                 /\ (r.linker_errors = 0 /\ r.build_succeeded = "True")
                       => r.build_failed_at = "None"

C10_Witness ==
    /\ KernelLoaded
    /\ "ccc" \in DOMAIN kernel_results
    /\ "build_failed_at" \in DOMAIN kernel_results.ccc
    /\ kernel_results.ccc.build_failed_at = "link"
    /\ kernel_results.ccc.build_succeeded = "False"

\* the key-value config of a subject: timing.txt of GCC, build_status.txt
\* of CCC
kernel_config == [gcc |-> "timing", ccc |-> "build_status"]

\* the number of per-unit marker lines of the subject's compile.log
Markers(c) ==
    LET log == fs[kernel_dir[c]].compile_log
    IN IF log.exists
       THEN Cardinality({i \in 1..Len(log.lines) : log.lines[i].label = "CC"})
       ELSE 0

\* the total declared in the subject's key-value config (0 when none is)
DeclaredTotal(c) ==
    LET config == parse_kv_file(fs[kernel_dir[c]][kernel_config[c]])
    IN IF S_total_object_files \in DOMAIN config
       THEN ParseInt(config[S_total_object_files]).v.n
       ELSE 0

\* C11 (as stated): for every subject loaded by load_kernel_results,
\* cc_files_compiled is the number of marker lines of compile.log when that
\* number is not zero, and otherwise (no marker, or no log) the total
\* declared in the subject's key-value config.
C11_CompiledUnitCount ==
    KernelLoaded =>
        \A c \in DOMAIN kernel_results :
            Get(kernel_results[c], "cc_files_compiled", 0) =
                IF Markers(c) # 0 THEN Markers(c) ELSE DeclaredTotal(c)

SqliteLoaded == pc \in {"generate_summary", "done", "generate_summary_raised"}

\* C12 (as stated): when the directory of a subject is missing, each loader
\* returns without raising a mapping that has no key for that subject and
\* has the entry of every subject whose directory exists.
C12_MissingDirectoryNoEntry ==
    /\ (KernelReturned /\ ExistingKernel # {"gcc", "ccc"}) =>
          /\ pc # "load_kernel_raised"
          /\ DOMAIN kernel_results = ExistingKernel
    /\ SqliteLoaded =>
          DOMAIN sqlite_results = {c \in {"gcc", "ccc"} : fs[sqlite_dir[c]].exists}

----------------------------------------------------------------------------
(* Properties of generate_summary invoked twice *)

----------------------------------------------------------------------------
(* Properties of the parsers called alone *)

\* the text before the first colon of a line and the text after it, trimmed
KeyOf(line) == strip(SubSeq(line, 1, Min(Positions(line, ":")) - 1))

ValueOf(line) == strip(Rest(line, Min(Positions(line, ":"))))

HasColon(line) == Positions(line, ":") # {}

\* a token that is an integer: a non-empty run of digits
IsInt(tok) == tok # <<>> /\ IsDigits(tok)

\* C14: parse_time_string returns 0 for the empty text, H*3600 + M*60 + S
\* for three tokens, M*60 + S for two, the number itself for a text without
\* colon, and raises for more than three tokens or an hour or minute token
\* that is not an integer.
C14_DurationContract ==
    f_pc = "returned_parse_time_string" =>
        LET tok == split(strip(f_time_str), ":")
            n == Len(tok)
        IN /\ f_time_str = <<>> => f_seconds = Ok(RatInt(0))
           /\ (n = 3 /\ IsInt(tok[1]) /\ IsInt(tok[2]) /\ IsNum(tok[3])) =>
                 f_seconds = Ok(RatAdd(RatInt(NatOf(tok[1]) * 3600
                                              + NatOf(tok[2]) * 60),
                                       Num(tok[3])))
           /\ (n = 2 /\ IsInt(tok[1]) /\ IsNum(tok[2])) =>
                 f_seconds = Ok(RatAdd(RatInt(NatOf(tok[1]) * 60), Num(tok[2])))
           /\ (f_time_str # <<>> /\ n = 1 /\ IsNum(tok[1])) =>
                 f_seconds = Ok(Num(tok[1]))
           /\ (n > 3 \/ (n \in {2, 3} /\ \E i \in 1..(n - 1) : ~IsInt(tok[i]))) =>
                 ~f_seconds.ok

C14_Witness ==
    /\ f_pc = "returned_parse_time_string"
    /\ f_time_str = <<"1", ":", "1", "3", ":", "1", "1">>
    /\ f_seconds = Ok(RatInt(4391))

\* C15: parse_kv_file returns the empty mapping for a path that does not
\* exist; for a file, the keys are the trimmed texts before the first colon
\* of the lines that have a colon, and each key has the trimmed text after
\* the first colon of the last line with that key.
C15_KeyValueContract ==
    f_pc = "returned_parse_kv_file" =>
        IF ~f_kv_file.exists THEN f_kv_data = EmptyDict
        ELSE LET lines == f_kv_file.lines
                 with_colon == {i \in 1..Len(lines) : HasColon(lines[i])}
             IN /\ DOMAIN f_kv_data = {KeyOf(lines[i]) : i \in with_colon}
                /\ \A i \in with_colon :
                      (\A j \in with_colon : j > i => KeyOf(lines[j]) # KeyOf(lines[i]))
                      => f_kv_data[KeyOf(lines[i])] = ValueOf(lines[i])

C15_Witness ==
    /\ f_pc = "returned_parse_kv_file"
    /\ f_kv_file.exists
    /\ Len(f_kv_file.lines) = 3
    /\ f_kv_file.lines[1] = <<"a", ":", " ", "1">>
    /\ f_kv_file.lines[2] = <<"t", ":", " ", "1", ":", "1", "3">>
    /\ f_kv_file.lines[3] = <<"a", ":", " ", "2">>
    /\ f_kv_data[<<"a">>] = <<"2">>
    /\ f_kv_data[<<"t">>] = <<"1", ":", "1", "3">>

\* the lines of a log that have the label of a catalog metric
Labelled(key, lines) ==
    {i \in 1..Len(lines) : lines[i].label = patterns[key].label}

\* the characters a value of the metric starts with
FirstChars(key) ==
    CASE patterns[key].group = "clock" -> Digits \cup {":"}
      [] patterns[key].group = "digits" -> Digits
      [] patterns[key].group = "decimal" -> Digits \cup {"."}

\* the label of the metric is followed by a value on some line
HasValue(key, lines) ==
    \E i \in Labelled(key, lines) :
        lines[i].text # <<>> /\ lines[i].text[1] \in FirstChars(key)

\* the lines of the log that have the label of the metric, alone
OnlyMetric(key, file) ==
    File(SelectSeq(file.lines, LAMBDA l : l.label = patterns[key].label))

\* C16 (as stated): the keys of the mapping parse_time_output returns are
\* exactly the catalog metrics whose label is found in the file content.
C16_KeysAreLabelsFound ==
    (f_pc = "returned_parse_time_output" /\ f_log_file.exists) =>
        DOMAIN f_log_data =
            {key \in DOMAIN patterns : Labelled(key, f_log_file.lines) # {}}

\* C16 (amended): the keys of the mapping are exactly the catalog metrics
\* whose label is followed by a value of the metric's form somewhere in the
\* content; what a metric maps to depends on the lines of that metric only;
\* every other metric is absent, and a file that does not exist gives the
\* empty mapping.
C16_KeysAreMetricsMatched ==
    f_pc = "returned_parse_time_output" =>
        IF ~f_log_file.exists THEN f_log_data = EmptyDict
        ELSE /\ DOMAIN f_log_data =
                    {key \in DOMAIN patterns : HasValue(key, f_log_file.lines)}
             /\ \A key \in DOMAIN f_log_data :
                    f_log_data[key] = parse_time_output(OnlyMetric(key, f_log_file))[key]

C16_Witness ==
    /\ f_pc = "returned_parse_time_output"
    /\ f_log_file.exists
    /\ DOMAIN f_log_data = {"max_rss_kb", "exit_status"}
    /\ Labelled("wall_clock", f_log_file.lines) # {}

----------------------------------------------------------------------------
(* Properties of load_sqlite_results, of the report and of the failure     *)
(* stage                                                                   *)

\* the key of summary.txt that holds a field of an entry
summary_key(test, opt, field) ==
    key_prefix(test, opt) \o (IF field = "wall_clock" THEN S_wall ELSE S_max_rss_kb)

\* C17: for every entry (test, optimization level) of a subject loaded by
\* load_sqlite_results and each of the fields wall_clock and max_rss_kb,
\* the field has the value parsed from the log when the log gave one,
\* otherwise the value of summary.txt when it has one, and is absent when
\* neither has it.
C17_FallbackOrder ==
    SqliteLoaded =>
        \A c \in DOMAIN sqlite_results :
        \A test \in {"compile", "speed"} :
        \A opt \in {"O0", "O2"} :
        \A field \in {"wall_clock", "max_rss_kb"} :
            LET d == fs[sqlite_dir[c]]
                from_log == parse_time_output(d[entry_key[test][opt]])
                from_summary == parse_kv_file(d.summary)
                key == summary_key(test, opt, field)
                entry == sqlite_results[c][entry_key[test][opt]]
            IN IF field \in DOMAIN from_log
               THEN field \in DOMAIN entry /\ entry[field] = from_log[field]
               ELSE IF key \in DOMAIN from_summary
               THEN field \in DOMAIN entry /\ entry[field] = from_summary[key]
               ELSE field \notin DOMAIN entry

C17_Witness ==
    /\ SqliteLoaded
    /\ "gcc" \in DOMAIN sqlite_results
    /\ fs.sqlite_gcc_v2.summary.exists
    /\ LET entry == sqlite_results.gcc.compile_O0
       IN /\ DOMAIN entry = {"wall_clock", "max_rss_kb"}
          /\ entry.wall_clock = <<"1", ":", "1", "3", ":", "1", "1">>
          /\ entry.max_rss_kb = <<"1", "0", "2", "4">>

\* C18 (as stated): the build-result row of the kernel report shows for each
\* subject the outcome the summary records: SUCCESS only for a subject whose
\* build_succeeded is not false, LINK FAILED only for a subject whose
\* build_failed_at is 'link'.
C18_BuildResultRow ==
    (pc = "done" /\ report.kernel # <<>>) =>
        \A i \in 1..2 :
            LET shown == report.kernel[1].build_result[i]
                recorded == summary.kernel[Compilers[i]]
            IN /\ shown = "SUCCESS" => recorded.build_succeeded # "False"
               /\ shown = "LINK FAILED" => recorded.build_failed_at = "link"

\* C19: on a result whose failure stage the loader set from compile.log,
\* build_failed_at is None only if build_succeeded is true and the count of
\* linker errors is 0; a log with exit status 0 and a linker-error marker
\* gives build_succeeded true and build_failed_at 'link'.
C19_NoneOnlyOnCleanSuccess ==
    (KernelLoaded /\ "ccc" \in DOMAIN kernel_results
        /\ "build_failed_at" \in DOMAIN kernel_results.ccc) =>
        LET r == kernel_results.ccc
        IN /\ r.build_failed_at = "None" =>
                 (r.build_succeeded = "True" /\ r.linker_errors = 0)
           /\ (ExitedWithSuccess("ccc") /\ r.linker_errors > 0) =>
                 (r.build_succeeded = "True" /\ r.build_failed_at = "link")

C19_Witness ==
    /\ KernelLoaded
    /\ "ccc" \in DOMAIN kernel_results
    /\ "build_failed_at" \in DOMAIN kernel_results.ccc
    /\ kernel_results.ccc.build_succeeded = "True"
    /\ kernel_results.ccc.linker_errors > 0
    /\ kernel_results.ccc.build_failed_at = "link"

====
